---- MODULE Spec2Model ----
(***************************************************************************)
(* Model of the tool-dispatch layer of the Ransomware.live MCP server      *)
(* (src/server.py): the RansomwareLiveAPI client methods, the tool         *)
(* catalogue returned by handle_list_tools and the handler                 *)
(* handle_call_tool with its three except clauses.                         *)
(*                                                                         *)
(* Texts (URLs, exception messages, the returned TextContent.text) are     *)
(* sequences of string pieces standing for their concatenation.  An        *)
(* Optional value is <<>> for None and <<v>> for the string v.             *)
(*                                                                         *)
(* Around the handlers the module models the process: the module-level     *)
(* start-up code (the API key check and the one global api_client), the    *)
(* requests read by app.run and waiting for the single event-loop thread,  *)
(* and the end of the process with the finalizer __del__.                  *)
(*                                                                         *)
(* The one httpx.Client outlives every dispatch, and it is the only object *)
(* a dispatch writes to: it keeps the cookies that responses set and sends *)
(* with a later request those whose path covers the request's path.        *)
(* cookies is that jar, sentCookies the Cookie header of the request in    *)
(* flight, setCookie the Set-Cookie header lines of its response.  The     *)
(* upstream of the model sets at most one cookie, for the whole host:      *)
(* "Set-Cookie: session=abc; Path=/".                                      *)
(***************************************************************************)
EXTENDS Naturals, Integers, Sequences, FiniteSets, TLC

VARIABLES pc, name, arguments, request, calls, response, envelope, tools,
          proc, acquired, released, pending, prev,
          cookies, sentCookies, setCookie

vars == <<pc, name, arguments, request, calls, response, envelope, tools,
          proc, acquired, released, pending, prev,
          cookies, sentCookies, setCookie>>

\* ------------------------------------------------------------------ bounds

\* The largest number of keys in an argument dict handed to handle_call_tool.
MaxKeys == 2

\* The largest number of requests read from the transport and not yet handled.
MaxPending == 1

\* ------------------------------------------------------ inputs of the model

BASE_URL == "https://api-pro.ransomware.live"

\* The names the if/elif chain of handle_call_tool compares against, in order.
RegisteredNames ==
    << "list_sectors", "list_groups", "get_group_info", "list_victims",
       "get_victim_info", "search_victims", "get_recent_victims", "get_stats",
       "get_ransomnotes", "get_ransomnotes_by_group", "get_ransomnote_content" >>

\* Tool names a client may send: the registered ones and an unknown one.
Names == { RegisteredNames[i] : i \in DOMAIN RegisteredNames }
             \cup { "does_not_exist" }

\* Keys a client may put in the argument dict ("extra" is declared by no tool).
Keys == { "group_name", "note_name", "victim_id", "query", "sector_name",
          "country", "group", "sector", "year", "month", "order", "extra" }

\* The string values tried for each key: a usual one, for most keys the empty
\* string, and for the keys whose schema declares a pattern or an enum, one
\* outside it.
ValuesOf(k) ==
    CASE k = "group_name"  -> { "lockbit", "" }
      [] k = "note_name"   -> { "note1", "" }
      [] k = "victim_id"   -> { "v1", "" }
      [] k = "query"       -> { "acme", "" }
      [] k = "sector_name" -> { "health" }
      [] k = "country"     -> { "US", "" }
      [] k = "group"       -> { "lockbit", "" }
      [] k = "sector"      -> { "health" }
      [] k = "year"        -> { "2024", "99" }
      [] k = "month"       -> { "01", "13" }
      [] k = "order"       -> { "discovered", "published", "bogus" }
      [] OTHER             -> { "x" }

AllValues == UNION { ValuesOf(k) : k \in Keys }

\* The characters of each value, for the schema's regular expressions.
Chars(v) ==
    CASE v = "2024" -> << "2", "0", "2", "4" >>
      [] v = "99"   -> << "9", "9" >>
      [] v = "01"   -> << "0", "1" >>
      [] v = "13"   -> << "1", "3" >>
      [] v = "US"   -> << "U", "S" >>
      [] v = "v1"   -> << "v", "1" >>
      [] v = "x"    -> << "x" >>
      [] v = ""     -> << >>
      [] v = "lockbit"    -> << "l", "o", "c", "k", "b", "i", "t" >>
      [] v = "note1"      -> << "n", "o", "t", "e", "1" >>
      [] v = "acme"       -> << "a", "c", "m", "e" >>
      [] v = "health"     -> << "h", "e", "a", "l", "t", "h" >>
      [] v = "discovered" -> << "d", "i", "s", "c", "o", "v", "e", "r", "e", "d" >>
      [] v = "published"  -> << "p", "u", "b", "l", "i", "s", "h", "e", "d" >>
      [] v = "bogus"      -> << "b", "o", "g", "u", "s" >>

\* handle_call_tool's `arguments`: None, or a dict of at most MaxKeys keys.
NoneArguments == [ isNone |-> TRUE, d |-> << >> ]

Dicts ==
    UNION { { f \in [ S -> AllValues ] : \A k \in S : f[k] \in ValuesOf(k) } :
            S \in { T \in SUBSET Keys : Cardinality(T) <= MaxKeys } }

Bundles == { NoneArguments } \cup { [ isNone |-> FALSE, d |-> f ] : f \in Dicts }

\* ------------------------------------------------------- Python primitives

\* bool(x) of an Optional[str]: None and "" are falsy.
Truthy(opt) == opt # << >> /\ opt[1] # ""

\* `not arguments`: None and the empty dict are falsy.
NotArguments(a) == a.isNone \/ DOMAIN a.d = {}

\* `key in arguments`, used only after `not arguments` was False.
In(k, a) == k \in DOMAIN a.d

\* arguments[key]
Item(a, k) == a.d[k]

\* arguments.get(key): the value, or None.
DictGet(a, k) == IF k \in DOMAIN a.d THEN << a.d[k] >> ELSE << >>

\* arguments.get(key, default)
DictGetDefault(a, k, default) == IF k \in DOMAIN a.d THEN a.d[k] ELSE default

\* `arguments.get(key) if arguments else None`
GetIfArguments(a, k) == IF ~ NotArguments(a) THEN DictGet(a, k) ELSE << >>

\* --------------------------------------------- what a piece of code ends in

\* Mutant: what the shared client holds from earlier responses goes into the
\* query of the request.
Get_SessionInQuery(url, params) ==
    [ raised |-> FALSE, msg |-> << >>, url |-> url,
      params |-> IF cookies = { } THEN params
                 ELSE [ k \in DOMAIN params \cup { "session" } |->
                          IF k = "session" THEN "1" ELSE params[k] ] ]

\* The code reached self.client.get(url, params=params).
Get(url, params) ==
    [ raised |-> FALSE, msg |-> << >>, url |-> url, params |-> params ]

\* The code raised ValueError(msg) before any request.
RaiseValueError(msg) ==
    [ raised |-> TRUE, msg |-> msg, url |-> << >>, params |-> << >> ]

NoParams == << >>

\* ------------------------------------------------------- RansomwareLiveAPI
\* Each method up to its self.client.get(...): the request it issues, or the
\* ValueError it raises instead.

list_sectors == Get(<< BASE_URL, "/listsectors" >>, NoParams)

list_groups == Get(<< BASE_URL, "/listgroups" >>, NoParams)

get_group_info(group_name) ==
    Get(<< BASE_URL, "/groups/", group_name >>, NoParams)

NoFilterMessage ==
    << "At least one filter parameter is required (group, sector, country, year, or month)" >>

\* The five parameters are Optional[str]; a falsy one adds no query parameter.
list_victims(group, sector, country, year, month) ==
    LET given  == [ group |-> group, sector |-> sector, country |-> country,
                    year |-> year, month |-> month ]
        added  == { k \in DOMAIN given : Truthy(given[k]) }
        params == [ k \in added |-> given[k][1] ]
    IN  IF added = {}
        THEN RaiseValueError(NoFilterMessage)
        ELSE Get(<< BASE_URL, "/victims" >>, params)

get_victim_info(victim_id) ==
    Get(<< BASE_URL, "/victim/", victim_id >>, NoParams)

\* query is a str; the three filters are Optional[str].
search_victims(query, group_name, sector_name, country) ==
    LET given  == [ group |-> group_name, sector |-> sector_name,
                    country |-> country ]
        added  == { k \in DOMAIN given : Truthy(given[k]) }
        params == [ k \in { "q" } \cup added |->
                      IF k = "q" THEN query ELSE given[k][1] ]
    IN  Get(<< BASE_URL, "/victims/search" >>, params)

get_recent_victims(order) ==
    Get(<< BASE_URL, "/victims/recent" >>, [ order |-> order ])

get_stats == Get(<< BASE_URL, "/stats" >>, NoParams)

get_ransomnotes == Get(<< BASE_URL, "/ransomnotes" >>, NoParams)

get_ransomnotes_by_group(group_name) ==
    Get(<< BASE_URL, "/ransomnotes/", group_name >>, NoParams)

get_ransomnote_content(group_name, note_name) ==
    Get(<< BASE_URL, "/ransomnotes/", group_name, "/", note_name >>, NoParams)

\* ------------------------------------------------ handle_call_tool: routing
\* The try body of handle_call_tool up to the awaited client method: one
\* operator per branch of the if/elif chain, with the branch's checks of
\* `arguments`, then the chain itself.

\* Mutant: the branch without its check, reading the field with a default.
Branch_get_group_info_Unchecked(a) ==
    get_group_info(DictGetDefault(a, "group_name", ""))

Branch_get_group_info(a) ==
    IF NotArguments(a) \/ ~ In("group_name", a)
    THEN RaiseValueError(<< "group_name is required" >>)
    ELSE get_group_info(Item(a, "group_name"))

Branch_list_victims(a) ==
    LET group   == GetIfArguments(a, "group")
        sector  == GetIfArguments(a, "sector")
        country == GetIfArguments(a, "country")
        year    == GetIfArguments(a, "year")
        month   == GetIfArguments(a, "month")
    IN  IF ~ \E x \in { group, sector, country, year, month } : Truthy(x)
        THEN RaiseValueError(NoFilterMessage)
        ELSE list_victims(group, sector, country, year, month)

Branch_get_victim_info(a) ==
    IF NotArguments(a) \/ ~ In("victim_id", a)
    THEN RaiseValueError(<< "victim_id is required" >>)
    ELSE get_victim_info(Item(a, "victim_id"))

Branch_search_victims(a) ==
    IF NotArguments(a) \/ ~ In("query", a)
    THEN RaiseValueError(<< "query is required" >>)
    ELSE search_victims(Item(a, "query"), DictGet(a, "group_name"),
                        DictGet(a, "sector_name"), DictGet(a, "country"))

\* Mutant: the other order as the default.
Branch_get_recent_victims_WrongDefault(a) ==
    get_recent_victims(DictGetDefault(a, "order", "published"))

Branch_get_recent_victims(a) ==
    LET order == IF ~ NotArguments(a)
                 THEN DictGetDefault(a, "order", "discovered")
                 ELSE "discovered"
    IN  get_recent_victims(order)

Branch_get_ransomnotes_by_group(a) ==
    IF NotArguments(a) \/ ~ In("group_name", a)
    THEN RaiseValueError(<< "group_name is required" >>)
    ELSE get_ransomnotes_by_group(Item(a, "group_name"))

Branch_get_ransomnote_content(a) ==
    IF NotArguments(a)
    THEN RaiseValueError(<< "group_name and note_name are required" >>)
    ELSE IF ~ In("group_name", a)
    THEN RaiseValueError(<< "group_name is required" >>)
    ELSE IF ~ In("note_name", a)
    THEN RaiseValueError(<< "note_name is required" >>)
    ELSE get_ransomnote_content(Item(a, "group_name"), Item(a, "note_name"))

\* Mutant: the else branch raising without the name.
UnknownTool_NoName(n) == RaiseValueError(<< "Unknown tool" >>)

\* The else branch.
UnknownTool(n) == RaiseValueError(<< "Unknown tool: ", n >>)

Route(n, a) ==
    IF n = "list_sectors" THEN list_sectors
    ELSE IF n = "list_groups" THEN list_groups
    ELSE IF n = "get_group_info" THEN Branch_get_group_info(a)
    ELSE IF n = "list_victims" THEN Branch_list_victims(a)
    ELSE IF n = "get_victim_info" THEN Branch_get_victim_info(a)
    ELSE IF n = "search_victims" THEN Branch_search_victims(a)
    ELSE IF n = "get_recent_victims" THEN Branch_get_recent_victims(a)
    ELSE IF n = "get_stats" THEN get_stats
    ELSE IF n = "get_ransomnotes" THEN get_ransomnotes
    ELSE IF n = "get_ransomnotes_by_group" THEN Branch_get_ransomnotes_by_group(a)
    ELSE IF n = "get_ransomnote_content" THEN Branch_get_ransomnote_content(a)
    ELSE UnknownTool(n)

\* ------------------------------------------------------ the upstream's answer

\* str(e) of the httpx transport errors tried (ConnectError, ReadTimeout).
TransportMessages ==
    { "All connection attempts failed", "The read operation timed out" }

NotFoundBody == "{\"error\":\"not found\"}"

\* Response bodies tried: empty, not JSON, and JSON texts (falsy ones included).
Bodies == { "", "<html>", "null", "false", "0", "[]", "{}",
            NotFoundBody, "[\"lockbit\",\"alphv\"]" }

ErrorBodies == { "", NotFoundBody }

NoResponse == [ kind |-> "none", status |-> 0, body |-> "", msg |-> "" ]

TransportFailure(m) == [ kind |-> "transport", status |-> 0, body |-> "", msg |-> m ]

HttpResponse(s, b) == [ kind |-> "http", status |-> s, body |-> b, msg |-> "" ]

Responses ==
    { TransportFailure(m) : m \in TransportMessages }
        \cup { HttpResponse(200, b) : b \in Bodies }
        \cup { HttpResponse(s, b) : s \in { 404, 500 }, b \in ErrorBodies }

\* ------------------------------------------------------------------- JSON
\* A parsed value: its type, its literal (scalars) and its elements (one level:
\* element literals for a list, key and value literals for a dict).

Scalar(t, lit) == [ t |-> t, lit |-> lit, elems |-> << >> ]

Array(items) ==
    [ t |-> "list", lit |-> "",
      elems |-> [ i \in DOMAIN items |-> [ k |-> "", v |-> items[i] ] ] ]

Object(pairs) == [ t |-> "dict", lit |-> "", elems |-> pairs ]

JSONDecodeError == [ t |-> "JSONDecodeError", lit |-> "", elems |-> << >> ]

\* response.json() on each body of Bodies.
JsonLoads(body) ==
    CASE body = "null"  -> Scalar("None", "null")
      [] body = "false" -> Scalar("bool", "false")
      [] body = "0"     -> Scalar("int", "0")
      [] body = "7"     -> Scalar("int", "7")
      [] body = "\"\""  -> Scalar("str", "\"\"")
      [] body = "[]"    -> Array(<< >>)
      [] body = "{}"    -> Object(<< >>)
      [] body = NotFoundBody ->
             Object(<< [ k |-> "\"error\"", v |-> "\"not found\"" ] >>)
      [] body = "[\"lockbit\",\"alphv\"]" ->
             Array(<< "\"lockbit\"", "\"alphv\"" >>)
      [] OTHER -> JSONDecodeError

\* bool(result) of a parsed value.
ValueTruthy(v) ==
    CASE v.t = "None" -> FALSE
      [] v.t = "bool" -> v.lit = "true"
      [] v.t = "int"  -> v.lit # "0"
      [] v.t = "str"  -> v.lit # "\"\""
      [] OTHER        -> Len(v.elems) > 0

RECURSIVE DumpElems(_, _, _)
DumpElems(elems, i, isDict) ==
    IF i > Len(elems) THEN << >>
    ELSE (IF i > 1 THEN << "," >> ELSE << >>)
         \o << "\n  " >>
         \o (IF isDict THEN << elems[i].k, ": " >> ELSE << >>)
         \o << elems[i].v >>
         \o DumpElems(elems, i + 1, isDict)

\* json.dumps(result, indent=2)
JsonDumps(v) ==
    IF v.t \in { "list", "dict" }
    THEN IF Len(v.elems) = 0
         THEN << (IF v.t = "list" THEN "[]" ELSE "{}") >>
         ELSE << (IF v.t = "list" THEN "[" ELSE "{") >>
              \o DumpElems(v.elems, 1, v.t = "dict")
              \o << "\n", (IF v.t = "list" THEN "]" ELSE "}") >>
    ELSE << v.lit >>

\* ------------------------------------------- handle_call_tool: after the call

\* Mutant: only server errors raise.
raise_for_status_5xx(resp) == resp.status >= 500

\* response.raise_for_status() raises HTTPStatusError unless the status is 2xx.
raise_for_status(resp) == ~ (200 <= resp.status /\ resp.status < 300)

DecodeErrorMessage == "Expecting value: line 1 column 1 (char 0)"

NoEnvelope == [ via |-> "none", text |-> << >> ]

\* `if result: ... else: ...`: the text returned for a parsed result.
FormatResult(result) ==
    IF ValueTruthy(result)
    THEN [ via |-> "json", text |-> JsonDumps(result) ]
    ELSE [ via |-> "nodata", text |-> << "No data returned from API" >> ]

\* except httpx.HTTPStatusError
ExceptHTTPStatusError(resp) ==
    [ via  |-> "HTTPStatusError",
      text |-> << "Error: ", "API Error ", ToString(resp.status), ": ", resp.body >> ]

\* except httpx.HTTPError
ExceptHTTPError(msg) ==
    [ via  |-> "HTTPError",
      text |-> << "Error: ", "Failed to fetch data from API - ", msg >> ]

\* Mutant: str(e) returned without the "Error: " prefix.
ExceptException_NoPrefix(msg) == [ via |-> "Exception", text |-> msg ]

\* except Exception: msg is the pieces of str(e).
ExceptException(msg) == [ via |-> "Exception", text |-> << "Error: " >> \o msg ]

\* The rest of the client method (raise_for_status, response.json()) and of
\* the handler, once self.client.get has returned or raised.
Complete(resp) ==
    IF resp.kind = "transport" THEN ExceptHTTPError(resp.msg)
    ELSE IF raise_for_status(resp) THEN ExceptHTTPStatusError(resp)
    ELSE LET result == JsonLoads(resp.body)
         IN  IF result = JSONDecodeError
             THEN ExceptException(<< DecodeErrorMessage >>)
             ELSE FormatResult(result)

\* --------------------------------------------------------- handle_list_tools

Property(n, pattern, enum, default) ==
    [ name |-> n, pattern |-> pattern, enum |-> enum, default |-> default ]

Plain(n) == Property(n, "", << >>, << >>)

\* Mutant: the schema without its "required" list.
Tool_NoRequired(n, properties, required, anyOf) ==
    [ name |-> n, properties |-> properties, required |-> << >>,
      anyOf |-> anyOf ]

Tool(n, properties, required, anyOf) ==
    [ name |-> n, properties |-> properties, required |-> required,
      anyOf |-> anyOf ]

YearPattern == "^\\d{4}$"

MonthPattern == "^(0[1-9]|1[0-2])$"

Digits == { "0", "1", "2", "3", "4", "5", "6", "7", "8", "9" }

\* Whether the string v matches a pattern of the catalogue ("" is no pattern).
Matches(pattern, v) ==
    LET c == Chars(v)
    IN  CASE pattern = YearPattern ->
               Len(c) = 4 /\ \A i \in 1..Len(c) : c[i] \in Digits
          [] pattern = MonthPattern ->
               /\ Len(c) = 2
               /\ \/ c[1] = "0" /\ c[2] \in Digits \ { "0" }
                  \/ c[1] = "1" /\ c[2] \in { "0", "1", "2" }
          [] OTHER -> TRUE

\* The list handle_list_tools returns, in its order.
Tools ==
    << Tool("list_sectors", << >>, << >>, << >>),
       Tool("list_groups", << >>, << >>, << >>),
       Tool("get_group_info", << Plain("group_name") >>, << "group_name" >>, << >>),
       Tool("list_victims",
            << Plain("group"), Plain("sector"), Plain("country"),
               Property("year", YearPattern, << >>, << >>),
               Property("month", MonthPattern, << >>, << >>) >>,
            << >>,
            << "group", "sector", "country", "year", "month" >>),
       Tool("get_victim_info", << Plain("victim_id") >>, << "victim_id" >>, << >>),
       Tool("search_victims",
            << Plain("query"), Plain("group_name"), Plain("sector_name"),
               Plain("country") >>,
            << "query" >>, << >>),
       Tool("get_recent_victims",
            << Property("order", "", << "discovered", "published" >>,
                        << "discovered" >>) >>,
            << >>, << >>),
       Tool("get_stats", << >>, << >>, << >>),
       Tool("get_ransomnotes", << >>, << >>, << >>),
       Tool("get_ransomnotes_by_group", << Plain("group_name") >>,
            << "group_name" >>, << >>),
       Tool("get_ransomnote_content",
            << Plain("group_name"), Plain("note_name") >>,
            << "group_name", "note_name" >>, << >>) >>

\* --------------------------------------------------------------- the server

NoRequest == [ url |-> << >>, params |-> << >> ]

\* The record of an earlier dispatch kept for comparison (a history variable:
\* no handler reads it); NoPrev when nothing is recorded.
NoPrev ==
    [ set |-> FALSE, name |-> "", arguments |-> NoneArguments,
      request |-> NoRequest, calls |-> 0, response |-> NoResponse,
      envelope |-> NoEnvelope, sentCookies |-> { }, setCookie |-> { } ]

\* The Set-Cookie header line the upstream may send: a session cookie for
\* every path of the host.
SetCookieLine == "session=abc; Path=/"

\* The Set-Cookie header lines of an upstream response: none, or that one.
SetCookies == { { }, { SetCookieLine } }

\* The cookie the client's jar makes of a Set-Cookie header line.
ParseSetCookie(line) ==
    CASE line = SetCookieLine ->
           [ name |-> "session", value |-> "abc", path |-> "/" ]

\* The jar sends a cookie with a request when the cookie's path covers the
\* request's path; the path "/" covers every path (the jar of the model holds
\* no other).
PathCovers(path) == path = "/"

\* Values of the environment variable RANSOMWARE_LIVE_API_KEY as os.getenv
\* returns them: None, the empty string, a key.
ApiKeys == { << >>, << "" >>, << "key" >> }

\* The process before the module-level code of server.py has run.
Init ==
    /\ pc = "idle"
    /\ name = ""
    /\ arguments = NoneArguments
    /\ request = NoRequest
    /\ calls = 0
    /\ response = NoResponse
    /\ envelope = NoEnvelope
    /\ tools = << >>
    /\ proc = "starting"
    /\ acquired = 0
    /\ released = 0
    /\ pending = 0
    /\ prev = NoPrev
    /\ cookies = { }
    /\ sentCookies = { }
    /\ setCookie = { }

\* The module-level code: `if not API_KEY: raise ValueError(...)`, then
\* api_client = RansomwareLiveAPI(API_KEY), whose __init__ creates the one
\* httpx.Client; then main() serves requests.
Startup(key) ==
    /\ proc = "starting"
    /\ IF key = << >> \/ key = << "" >>
       THEN /\ proc' = "failed"
            /\ UNCHANGED acquired
       ELSE /\ proc' = "running"
            /\ acquired' = acquired + 1
    /\ UNCHANGED << pc, name, arguments, request, calls, response, envelope,
                    tools, released, pending, prev,
                    cookies, sentCookies, setCookie >>

\* app.run reads a request from the stdio transport (the reader runs beside
\* the event loop, so a request can arrive whatever the handler is doing); the
\* request waits for the event loop to run its handler.
Arrive ==
    /\ proc = "running"
    /\ pending < MaxPending
    /\ pending' = pending + 1
    /\ UNCHANGED << pc, name, arguments, request, calls, response, envelope,
                    tools, proc, acquired, released, prev,
                    cookies, sentCookies, setCookie >>

\* handle_list_tools(): returns the catalogue.
HandleListTools ==
    /\ pc = "idle"
    /\ tools' = Tools
    /\ pc' = "listed"
    /\ UNCHANGED << name, arguments, request, calls, response, envelope >>

\* handle_call_tool(n, a) up to its return or to the request it issues: a
\* ValueError raised on the way is caught by `except Exception` and returned.
HandleCallTool(n, a) ==
    /\ pc = "idle"
    /\ name' = n
    /\ arguments' = a
    /\ response' = NoResponse
    /\ LET r == Route(n, a)
       IN  IF r.raised
           THEN /\ request' = NoRequest
                /\ calls' = 0
                /\ envelope' = ExceptException(r.msg)
                /\ pc' = "returned"
           ELSE /\ request' = [ url |-> r.url, params |-> r.params ]
                /\ calls' = 1
                /\ envelope' = NoEnvelope
                /\ pc' = "awaiting"
    /\ UNCHANGED tools

\* Mutant: a transport failure is retried once before it is reported.
UpstreamResponds_Retry(resp) ==
    /\ pc = "awaiting"
    /\ IF resp.kind = "transport" /\ calls < 2
       THEN /\ calls' = calls + 1
            /\ UNCHANGED << pc, response, envelope >>
       ELSE /\ response' = resp
            /\ envelope' = Complete(resp)
            /\ pc' = "returned"
            /\ UNCHANGED calls
    /\ UNCHANGED << name, arguments, request, tools >>

\* self.client.get(...) returns or raises, and the handler runs to its return.
UpstreamResponds(resp) ==
    /\ pc = "awaiting"
    /\ response' = resp
    /\ envelope' = Complete(resp)
    /\ pc' = "returned"
    /\ UNCHANGED << name, arguments, request, calls, tools >>

\* The handler's return value goes back to the client; its locals are gone and
\* the server waits for the next request.
Deliver ==
    /\ pc \in { "returned", "listed" }
    /\ pc' = "idle"
    /\ name' = ""
    /\ arguments' = NoneArguments
    /\ request' = NoRequest
    /\ calls' = 0
    /\ response' = NoResponse
    /\ envelope' = NoEnvelope
    /\ tools' = << >>

\* The event loop starts the handler of a waiting tools/list request.
ListTools ==
    /\ proc = "running" /\ pc = "idle" /\ pending > 0
    /\ HandleListTools
    /\ pending' = pending - 1
    /\ UNCHANGED << proc, acquired, released, prev,
                    cookies, sentCookies, setCookie >>

\* The Cookie header the shared client adds to a request it sends: the
\* name=value of every cookie of its jar whose path covers the request.
CookieHeader ==
    IF calls' = 1
    THEN { << c.name, "=", c.value >> : c \in { d \in cookies : PathCovers(d.path) } }
    ELSE { }

\* The event loop starts the handler of a waiting tools/call request.  The
\* handler uses the global api_client: no client is created here.
CallTool ==
    /\ proc = "running" /\ pc = "idle" /\ pending > 0
    /\ \E n \in Names, a \in Bundles : HandleCallTool(n, a)
    /\ sentCookies' = CookieHeader
    /\ pending' = pending - 1
    /\ UNCHANGED << proc, acquired, released, prev, cookies, setCookie >>

\* The shared client receives resp with the Set-Cookie header lines c (a
\* transport failure brings no header) and stores their cookies in its jar,
\* whatever the status of the response.
StoreCookies(resp, c) ==
    /\ setCookie' = IF resp.kind = "http" THEN c ELSE { }
    /\ cookies' = cookies \cup { ParseSetCookie(line) : line \in setCookie' }

\* The blocking self.client.get(...) of the running handler comes back.
Respond ==
    /\ proc = "running" /\ pc = "awaiting"
    /\ \E resp \in Responses, c \in SetCookies :
          /\ UpstreamResponds(resp)
          /\ StoreCookies(resp, c)
    /\ UNCHANGED << proc, acquired, released, pending, prev, sentCookies >>

\* The handler's result is written to the transport.  The request and the
\* response are gone with the handler's frame; the client keeps its jar.
Reply ==
    /\ proc = "running"
    /\ Deliver
    /\ sentCookies' = { }
    /\ setCookie' = { }
    /\ UNCHANGED << proc, acquired, released, pending, prev, cookies >>

\* The process ends: main() returns when the transport closes, or an exception
\* or a signal ends it at any point, a blocked upstream call included.  The
\* frames of a running handler are gone.  The only release of the client is
\* RansomwareLiveAPI.__del__, which Python calls at most once and does not
\* guarantee to call for objects alive at interpreter exit (and never when the
\* process is killed): finalized says whether it ran.
Exit(finalized) ==
    /\ proc = "running"
    /\ proc' = "exited"
    /\ released' = IF finalized THEN released + 1 ELSE released
    /\ pc' = "idle"
    /\ name' = ""
    /\ arguments' = NoneArguments
    /\ request' = NoRequest
    /\ calls' = 0
    /\ response' = NoResponse
    /\ envelope' = NoEnvelope
    /\ tools' = << >>
    /\ pending' = 0
    /\ cookies' = { }
    /\ sentCookies' = { }
    /\ setCookie' = { }
    /\ UNCHANGED << acquired, prev >>

Next ==
    \/ \E key \in ApiKeys : Startup(key)
    \/ Arrive
    \/ ListTools
    \/ CallTool
    \/ Respond
    \/ Reply
    \/ \E finalized \in BOOLEAN : Exit(finalized)

Spec == Init /\ [][Next]_vars

\* ------------------------------------------- the same call, twice in sequence
\*
\* A client that sends a tools/call request, waits for its result and sends the
\* same request again, against an upstream that answers an identical request
\* identically.  The server's steps are those of Spec; prev records the first
\* dispatch when its result is delivered.

\* The client sends its next request once the previous result is back.
ArriveInSequence ==
    /\ pc = "idle" /\ pending = 0
    /\ Arrive

\* The first dispatch: any name, any bundle.
FirstCall ==
    /\ ~prev.set
    /\ CallTool

\* The second dispatch: the name and the bundle of the first.
SecondCall ==
    /\ prev.set
    /\ proc = "running" /\ pc = "idle" /\ pending > 0
    /\ HandleCallTool(prev.name, prev.arguments)
    /\ sentCookies' = CookieHeader
    /\ pending' = pending - 1
    /\ UNCHANGED << proc, acquired, released, prev, cookies, setCookie >>

\* The upstream answers; a request (URL and query) it has answered before gets
\* the same answer, headers included.
RespondAlike ==
    /\ proc = "running" /\ pc = "awaiting"
    /\ \E resp \in Responses, c \in SetCookies :
          /\ (prev.set /\ request = prev.request) =>
                 resp = prev.response /\ c = prev.setCookie
          /\ UpstreamResponds(resp)
          /\ StoreCookies(resp, c)
    /\ UNCHANGED << proc, acquired, released, pending, prev, sentCookies >>

\* The result of the first dispatch is delivered and recorded.
ReplyFirst ==
    /\ proc = "running" /\ pc = "returned" /\ ~prev.set
    /\ prev' = [ set |-> TRUE, name |-> name, arguments |-> arguments,
                 request |-> request, calls |-> calls, response |-> response,
                 envelope |-> envelope, sentCookies |-> sentCookies,
                 setCookie |-> setCookie ]
    /\ Deliver
    /\ sentCookies' = { }
    /\ setCookie' = { }
    /\ UNCHANGED << proc, acquired, released, pending, cookies >>

\* The result of the second dispatch is delivered; the record is dropped.
ReplySecond ==
    /\ proc = "running" /\ pc = "returned" /\ prev.set
    /\ prev' = NoPrev
    /\ Deliver
    /\ sentCookies' = { }
    /\ setCookie' = { }
    /\ UNCHANGED << proc, acquired, released, pending, cookies >>

NextTwice ==
    \/ \E key \in ApiKeys : Startup(key)
    \/ ArriveInSequence
    \/ FirstCall
    \/ SecondCall
    \/ RespondAlike
    \/ ReplyFirst
    \/ ReplySecond

SpecTwice == Init /\ [][NextTwice]_vars

\* ================================================================== claims

Range(seq) == { seq[i] : i \in DOMAIN seq }

\* A handle_call_tool dispatch is under way or has just returned.
InDispatch == pc \in { "awaiting", "returned" }

\* The returned text is a failure: it starts with "Error: ".
IsFailure(e) == Len(e.text) >= 1 /\ e.text[1] = "Error: "

\* The names and the required fields the catalogue advertises.
Advertised == { Tools[i].name : i \in DOMAIN Tools }

RequiredOf(n) ==
    IF n \in Advertised
    THEN Range((CHOOSE t \in Range(Tools) : t.name = n).required)
    ELSE {}

HasKey(a, k) == ~ a.isNone /\ k \in DOMAIN a.d

Filters == { "group", "sector", "country", "year", "month" }

NonEmptyKey(a, k) == HasKey(a, k) /\ a.d[k] # ""

\* ---- C1

\* The caller-side violations C1 lists: an unknown name, a required field
\* missing, list_victims with none of its five filters in the bundle.
CallerViolation(n, a) ==
    \/ n \notin Advertised
    \/ \E f \in RequiredOf(n) : ~ HasKey(a, f)
    \/ n = "list_victims" /\ \A f \in Filters : ~ HasKey(a, f)

\* C1: a dispatch rejected for a caller-side violation (unknown name, required
\* field missing, list_victims without any filter) returns a failure text and
\* has issued no upstream request: it is never waiting for the upstream.
C1_ValidationNeverReachesNetwork ==
    (InDispatch /\ CallerViolation(name, arguments)) =>
        /\ pc = "returned"
        /\ IsFailure(envelope)
        /\ calls = 0
        /\ request = NoRequest

\* list_victims with the empty dict was dispatched and rejected without a call.
C1_Witness ==
    /\ pc = "returned"
    /\ name = "list_victims"
    /\ ~ arguments.isNone /\ DOMAIN arguments.d = {}
    /\ IsFailure(envelope)
    /\ calls = 0

\* ---- C2

WellFormed(e) ==
    /\ Len(e.text) >= 1
    /\ \/ e.via \in { "json", "nodata" } /\ e.text[1] # "Error: "
       \/ e.via \in { "Exception", "HTTPError", "HTTPStatusError" }
            /\ e.text[1] = "Error: "

\* C2: whatever the name, the bundle and the upstream's answer, a dispatch ends
\* by returning one text, a success text or one that starts with "Error: ":
\* every return holds such a text, and every answer the upstream can give to a
\* pending request leads to one.
C2_AlwaysOneWellFormedEnvelope ==
    /\ pc \in { "idle", "awaiting", "returned", "listed" }
    /\ pc = "returned" => WellFormed(envelope)
    /\ pc = "awaiting" => \A r \in Responses : WellFormed(Complete(r))

\* A 200 answer whose body is not JSON came back as an "Error: " text.
C2_Witness ==
    /\ pc = "returned"
    /\ response = HttpResponse(200, "<html>")
    /\ envelope.via = "Exception"
    /\ IsFailure(envelope)
\* ---- C3

PropertiesOf(n) ==
    IF n \in Advertised
    THEN Range((CHOOSE t \in Range(Tools) : t.name = n).properties)
    ELSE {}

\* A field of the bundle breaks the pattern or the enum its schema declares.
ViolatesConstraint(n, a) ==
    \E p \in PropertiesOf(n) :
        /\ HasKey(a, p.name)
        /\ \/ ~ Matches(p.pattern, a.d[p.name])
           \/ p.enum # << >> /\ a.d[p.name] \notin Range(p.enum)

\* C3: a list_victims dispatch with a year that is not four digits or a month
\* outside 01..12, and a get_recent_victims dispatch with an order outside
\* {discovered, published}, is rejected with a failure text and issues no
\* upstream request.
C3_ConstraintViolationsRejected ==
    (InDispatch /\ name \in { "list_victims", "get_recent_victims" }
                /\ ViolatesConstraint(name, arguments)) =>
        /\ pc = "returned"
        /\ IsFailure(envelope)
        /\ envelope.via = "Exception"
        /\ calls = 0

\* ---- C4

\* A required field of the tool is absent from the bundle or empty in it.
RequiredAbsentOrEmpty(n, a) ==
    \E f \in RequiredOf(n) : ~ HasKey(a, f) \/ a.d[f] = ""

\* C4: for a tool with required fields, a dispatch with a required field
\* absent or empty is rejected with a failure text and issues no upstream
\* request; a request is issued only if every required field is present and
\* non-empty.
C4_RequiredPresentAndNonEmpty ==
    (InDispatch /\ RequiredOf(name) # {}) =>
        /\ RequiredAbsentOrEmpty(name, arguments) =>
               pc = "returned" /\ IsFailure(envelope) /\ calls = 0
        /\ calls > 0 => ~ RequiredAbsentOrEmpty(name, arguments)

\* ---- C5

\* C5: a dispatch of a name outside the catalogue, whatever the bundle,
\* returns the failure text of a caller-side rejection (raised in the try body,
\* caught by `except Exception`) that contains the name, with no request.
C5_UnknownNameRejected ==
    (InDispatch /\ name \notin Advertised) =>
        /\ pc = "returned"
        /\ envelope.via = "Exception"
        /\ IsFailure(envelope)
        /\ \E i \in DOMAIN envelope.text : envelope.text[i] = name
        /\ calls = 0
        /\ request = NoRequest

\* "does_not_exist" was dispatched with a bundle holding an undeclared key.
C5_Witness ==
    /\ pc = "returned"
    /\ name = "does_not_exist"
    /\ HasKey(arguments, "extra")
    /\ envelope.text = << "Error: ", "Unknown tool: ", "does_not_exist" >>
    /\ calls = 0
\* ---- C6

\* The upstream answered the pending request with an error status.
ErrorStatusReturned ==
    pc = "returned" /\ response.kind = "http" /\ response.status >= 400

\* C6 as stated: after an answer with status >= 400 the dispatch returns the
\* upstream-error failure whose message, the text after "Error: ", is
\* "status <code>: <body>".
C6_StatusMessageAsStated ==
    ErrorStatusReturned =>
        /\ envelope.via = "HTTPStatusError"
        /\ Tail(envelope.text) =
               << "status ", ToString(response.status), ": ", response.body >>

\* C6 amended: after an answer with status >= 400 the dispatch returns the
\* text "Error: API Error <code>: <body>" with the status code and the body
\* text unchanged, from the HTTPStatusError clause, never from the transport
\* or the general clause.
C6_ApiErrorMessage ==
    ErrorStatusReturned =>
        /\ envelope.via = "HTTPStatusError"
        /\ envelope.text = << "Error: ", "API Error ", ToString(response.status),
                              ": ", response.body >>

\* A 404 with body {"error":"not found"} came back as the API Error text.
C6_Witness ==
    /\ pc = "returned"
    /\ response = HttpResponse(404, NotFoundBody)
    /\ envelope.text = << "Error: ", "API Error ", "404", ": ",
                          "{\"error\":\"not found\"}" >>

\* ---- C7

\* C7: after an answer with a status below 400, a body that is valid JSON
\* (falsy values included) comes back as the success text of that value; the
\* "No data returned from API" text is returned only for an empty body, and an
\* empty body is not reported as a failure.
C7_ValidJsonIsSuccess ==
    (pc = "returned" /\ response.kind = "http" /\ response.status < 400) =>
        /\ JsonLoads(response.body) # JSONDecodeError =>
               /\ envelope.via = "json"
               /\ envelope.text = JsonDumps(JsonLoads(response.body))
        /\ envelope.via = "nodata" => response.body = ""
        /\ response.body = "" => ~ IsFailure(envelope)

\* ---- C8

\* The validation of the specification passes: a catalogue name, every
\* required field present and non-empty, every present field within its
\* pattern or enum and, for list_victims, one of the filters in the bundle.
SpecValid(n, a) ==
    /\ n \in Advertised
    /\ ~ RequiredAbsentOrEmpty(n, a)
    /\ ~ ViolatesConstraint(n, a)
    /\ n = "list_victims" => \E f \in Filters : HasKey(a, f)

\* The handler's checks pass: a catalogue name, every required key in the
\* bundle and, for list_victims, a filter with a non-empty value.
Accepted(n, a) ==
    /\ n \in Advertised
    /\ \A f \in RequiredOf(n) : HasKey(a, f)
    /\ n = "list_victims" => \E f \in Filters : NonEmptyKey(a, f)

\* After a transport failure the dispatch returned the transport failure text
\* with the failure's message, having issued one request.
TransportFailureReported ==
    (pc = "returned" /\ response.kind = "transport") =>
        /\ envelope.via = "HTTPError"
        /\ envelope.text = << "Error: ", "Failed to fetch data from API - ",
                              response.msg >>
        /\ calls = 1

\* C8 as stated: a dispatch issues at most one upstream request, and exactly
\* one when its arguments pass validation; a transport failure is reported
\* without a second request.
C8_OneCallWhenValidAsStated ==
    /\ calls <= 1
    /\ (InDispatch /\ SpecValid(name, arguments)) => calls = 1
    /\ TransportFailureReported

\* C8 amended: a dispatch issues at most one upstream request: exactly one
\* when the handler's checks pass (a catalogue name, every required key in the
\* bundle and, for list_victims, a filter with a non-empty value) and none
\* otherwise; a transport failure is reported without a second request.
C8_AtMostOneCallNoRetry ==
    /\ calls <= 1
    /\ InDispatch => (calls = 1 <=> Accepted(name, arguments))
    /\ TransportFailureReported

\* A request timed out and the dispatch returned after its single request.
C8_Witness ==
    /\ pc = "returned"
    /\ response = TransportFailure("The read operation timed out")
    /\ envelope.via = "HTTPError"
    /\ calls = 1

\* ---- C9

\* The operation table: path templates with their path parameters in braces.
PathTemplate(n) ==
    CASE n = "list_sectors"             -> << "/listsectors" >>
      [] n = "list_groups"              -> << "/listgroups" >>
      [] n = "get_group_info"           -> << "/groups/", "{group_name}" >>
      [] n = "list_victims"             -> << "/victims" >>
      [] n = "get_victim_info"          -> << "/victim/", "{victim_id}" >>
      [] n = "search_victims"           -> << "/victims/search" >>
      [] n = "get_recent_victims"       -> << "/victims/recent" >>
      [] n = "get_stats"                -> << "/stats" >>
      [] n = "get_ransomnotes"          -> << "/ransomnotes" >>
      [] n = "get_ransomnotes_by_group" -> << "/ransomnotes/", "{group_name}" >>
      [] n = "get_ransomnote_content"   ->
             << "/ransomnotes/", "{group_name}", "/", "{note_name}" >>

Substitute(template, a) ==
    [ i \in DOMAIN template |->
        CASE template[i] = "{group_name}" -> a.d["group_name"]
          [] template[i] = "{note_name}"  -> a.d["note_name"]
          [] template[i] = "{victim_id}"  -> a.d["victim_id"]
          [] OTHER                        -> template[i] ]

TableUrl(n, a) == << BASE_URL >> \o Substitute(PathTemplate(n), a)

\* The operation table's query map, Present(a, k) telling which optional
\* fields of the bundle count as present.
TableQuery(n, a, Present(_, _)) ==
    CASE n = "list_victims" ->
           [ k \in { f \in Filters : Present(a, f) } |-> a.d[k] ]
      [] n = "search_victims" ->
           LET from == [ group |-> "group_name", sector |-> "sector_name",
                         country |-> "country" ]
               used == { k \in DOMAIN from : Present(a, from[k]) }
           IN  [ k \in { "q" } \cup used |->
                   IF k = "q" THEN a.d["query"] ELSE a.d[from[k]] ]
      [] n = "get_recent_victims" ->
           [ order |-> IF HasKey(a, "order") THEN a.d["order"] ELSE "discovered" ]
      [] OTHER -> << >>

\* C9 as stated: the request of a dispatch whose bundle passes validation is
\* the table's path with the path parameters substituted and the table's query
\* map, which holds every optional field present in the bundle.
C9_RequestAsStated ==
    (InDispatch /\ calls = 1 /\ SpecValid(name, arguments)) =>
        /\ request.url = TableUrl(name, arguments)
        /\ request.params = TableQuery(name, arguments, HasKey)

\* C9 amended: the request of every dispatch that issues one is the table's
\* path with the path parameters substituted and the table's query map, where
\* the query map of list_victims and search_victims holds the optional fields
\* that are present with a non-empty value.
C9_RequestFromTable ==
    (InDispatch /\ calls = 1) =>
        /\ request.url = TableUrl(name, arguments)
        /\ request.params = TableQuery(name, arguments, NonEmptyKey)

\* search_victims with a query and a group_name filter issued its request.
C9_Witness ==
    /\ pc = "awaiting"
    /\ name = "search_victims"
    /\ HasKey(arguments, "group_name") /\ arguments.d["group_name"] = "lockbit"
    /\ request.url = << BASE_URL, "/victims/search" >>
    /\ request.params = [ q |-> arguments.d["query"], group |-> "lockbit" ]

\* ---- C10

\* The required fields of the operation table.
TableRequired(n) ==
    CASE n = "get_group_info"           -> { "group_name" }
      [] n = "get_victim_info"          -> { "victim_id" }
      [] n = "search_victims"           -> { "query" }
      [] n = "get_ransomnotes_by_group" -> { "group_name" }
      [] n = "get_ransomnote_content"   -> { "group_name", "note_name" }
      [] OTHER                          -> {}

\* C10: every listing is the same eleven tools in declaration order with the
\* table's required fields; a dispatch of an advertised name is never answered
\* "Unknown tool"; and a dispatch is rejected for a missing field exactly when
\* an advertised required field is missing from the bundle.
C10_ClosedRegistry ==
    /\ tools # << >> => pc = "listed"
    /\ pc = "listed" =>
           /\ Len(tools) = 11
           /\ [ i \in DOMAIN tools |-> tools[i].name ] = RegisteredNames
           /\ \A i \in DOMAIN tools :
                  Range(tools[i].required) = TableRequired(tools[i].name)
    /\ (InDispatch /\ name \in Advertised) =>
           /\ ~ (pc = "returned" /\ Len(envelope.text) >= 2
                                 /\ envelope.text[2] = "Unknown tool: ")
           /\ RequiredOf(name) = TableRequired(name)
           /\ (\E f \in RequiredOf(name) : ~ HasKey(arguments, f)) =>
                  pc = "returned" /\ calls = 0 /\ IsFailure(envelope)
           /\ (pc = "returned" /\ calls = 0 /\ name # "list_victims") =>
                  \E f \in RequiredOf(name) : ~ HasKey(arguments, f)

\* The catalogue was listed: eleven tools, get_ransomnote_content last with
\* its two required fields.
C10_Witness ==
    /\ pc = "listed"
    /\ Len(tools) = 11
    /\ tools[11].name = "get_ransomnote_content"
    /\ tools[11].required = << "group_name", "note_name" >>

\* ------------------------------------------------- C11: concurrent dispatches

\* The envelope the running dispatch owes to its own name, bundle and upstream
\* response alone.
OwnEnvelope ==
    LET r == Route(name, arguments)
    IN  IF r.raised THEN ExceptException(r.msg) ELSE Complete(response)

\* A dispatch is suspended in its upstream call while another request waits.
OtherWaitsDuringUpstreamCall ==
    proc = "running" /\ pc = "awaiting" /\ pending > 0

\* C11 (as stated): while one dispatch is in its upstream call, a waiting
\* dispatch can start (and so issue its own call and return first), and the
\* envelope of every dispatch depends only on its own name, bundle and upstream
\* response.  The code calls the synchronous httpx.Client inside the handler,
\* which holds the event-loop thread until the response is back: no other
\* handler starts meanwhile, and the first conjunct fails.
C11_ConcurrentDispatchesNonBlocking ==
    /\ OtherWaitsDuringUpstreamCall => ENABLED CallTool
    /\ pc = "returned" => envelope = OwnEnvelope

\* ------------------------------------------- C12: lifetime of the one client

\* C12 (as stated): the client is acquired exactly once, at start-up and only
\* with an API key; without a key the process fails and serves no dispatch;
\* while the process runs the one client stays open and is shared by every
\* dispatch; and a process that has ended, normally or not, has released the
\* client exactly once.  The last conjunct fails: the only release is the
\* finalizer __del__, which does not run when the process is killed.
C12_ClientAcquiredOnceReleasedOnce ==
    /\ proc = "starting" => acquired = 0 /\ released = 0
    /\ proc = "failed" =>
           acquired = 0 /\ released = 0 /\ pc = "idle" /\ pending = 0
    /\ proc = "running" => acquired = 1 /\ released = 0
    /\ proc = "exited" => acquired = 1 /\ released = 1

\* ------------------------------------------------ C13: the same call, twice

\* The second of two identical dispatches is under way or has returned.
InSecondDispatch == prev.set /\ InDispatch

\* The first dispatch left something behind in the shared client: the second
\* request carries a cookie that the first did not.
SessionLeftBehind == sentCookies # prev.sentCookies

====
